---------------------------- MODULE Spec2Model ----------------------------
(***************************************************************************)
(* Face alignment for the photos ML pipeline                               *)
(* (mobile/apps/photos/rust/src/ml/face/align.rs).                         *)
(*                                                                         *)
(* Numbers.  The source computes in f32.  The model computes exactly, on   *)
(* integers and on fractions of integers:                                  *)
(*   - a fraction is a record [n |-> numerator, d |-> denominator > 0],    *)
(*     kept in lowest terms;                                               *)
(*   - comparisons against the f32 constants 0.5, 0.2, 1e-6 and            *)
(*     f32::EPSILON are exact;                                             *)
(*   - the landmark template is held to whole pixels of the 112 grid.      *)
(* Rounding of f32 arithmetic is therefore not part of the model.          *)
(*                                                                         *)
(* Libraries.  nalgebra's SVD is any decomposition over the orthogonal     *)
(* matrices with entries 0, 1, -1; imageproc's warp samples the nearest    *)
(* source pixel; crate::ml::types::to_face_id is the pair of its           *)
(* arguments.                                                              *)
(***************************************************************************)
EXTENDS Integers, Sequences, FiniteSets, TLC

VARIABLES
    \* face_direction, applied to one detection
    dir_detection, dir_result,
    \* compute_blur_value, applied to one warped face: its locals
    blur_pc, face_image, direction, gray, padded, laplacian, blur_returned,
    \* estimate_similarity_transform, applied to five points: its locals
    est,
    \* run_face_alignment: the arguments and locals of the call in progress,
    \* and what the caller keeps of its first call
    run, first_call

dirVars == <<dir_detection, dir_result>>
blurVars == <<blur_pc, face_image, direction, gray, padded, laplacian, blur_returned>>
estVars == <<est>>
runVars == <<run, first_call>>
vars == <<dirVars, blurVars, estVars, runVars>>

---------------------------------------------------------------------------
(* Arithmetic helpers                                                      *)

Abs(x) == IF x < 0 THEN -x ELSE x
Max(x, y) == IF x >= y THEN x ELSE y
Min(x, y) == IF x <= y THEN x ELSE y

RECURSIVE Gcd(_, _)
Gcd(x, y) == IF y = 0 THEN x ELSE Gcd(y, x % y)

(* The fraction n/d (d # 0) in lowest terms with a positive denominator,   *)
(* g the greatest common divisor of |n| and |d|.                           *)
Lowest(n, d, g) ==
    IF d < 0 THEN [n |-> -(n \div g), d |-> -(d \div g)]
    ELSE [n |-> n \div g, d |-> d \div g]

Frac(n, d) == Lowest(n, d, Gcd(Abs(n), Abs(d)))

FInt(k) == [n |-> k, d |-> 1]
FNeg(x) == [n |-> -x.n, d |-> x.d]

(* Sums over the least common denominator and products with the common    *)
(* factors cancelled first, which keeps the intermediate integers small.   *)
AddOver(x, y, g) == Frac(x.n * (y.d \div g) + y.n * (x.d \div g), (x.d \div g) * y.d)
FAdd(x, y) == AddOver(x, y, Gcd(x.d, y.d))
FSub(x, y) == FAdd(x, FNeg(y))
MulOver(x, y, g1, g2) == Frac((x.n \div g1) * (y.n \div g2), (x.d \div g2) * (y.d \div g1))
FMul(x, y) == MulOver(x, y, Gcd(Abs(x.n), y.d), Gcd(Abs(y.n), x.d))
FDiv(x, y) == FMul(x, Frac(y.d, y.n))
FAbs(x) == [n |-> Abs(x.n), d |-> x.d]
FLt(x, y) == x.n * y.d < y.n * x.d
FLe(x, y) == x.n * y.d <= y.n * x.d
FMax(x, y) == IF FLt(x, y) THEN y ELSE x
FMin(x, y) == IF FLt(y, x) THEN y ELSE x

(* x <= f32::EPSILON and |x| < f32::EPSILON, with f32::EPSILON = 2^-23:    *)
(* n / d <= 2^-23 iff n <= d / 2^23 iff n <= floor(d / 2^23).              *)
LeEpsilon(x) == x.n <= x.d \div 8388608
AbsLtEpsilon(x) == Abs(x.n) <= (x.d - 1) \div 8388608

(* nalgebra::Vector2 is a pair <<x, y>>; nalgebra::Matrix2 is a pair of    *)
(* rows <<<<m11, m12>>, <<m21, m22>>>>.                                     *)
VSub(v, w) == <<FSub(v[1], w[1]), FSub(v[2], w[2])>>
VScale(v, k) == <<FMul(v[1], k), FMul(v[2], k)>>
VDiv(v, k) == <<FDiv(v[1], k), FDiv(v[2], k)>>
Dot(v, w) == FAdd(FMul(v[1], w[1]), FMul(v[2], w[2]))
Outer(v, w) ==
    << <<FMul(v[1], w[1]), FMul(v[1], w[2])>>,
       <<FMul(v[2], w[1]), FMul(v[2], w[2])>> >>
MAdd(m, k) ==
    << <<FAdd(m[1][1], k[1][1]), FAdd(m[1][2], k[1][2])>>,
       <<FAdd(m[2][1], k[2][1]), FAdd(m[2][2], k[2][2])>> >>
MMul(m, k) ==
    << <<FAdd(FMul(m[1][1], k[1][1]), FMul(m[1][2], k[2][1])),
         FAdd(FMul(m[1][1], k[1][2]), FMul(m[1][2], k[2][2]))>>,
       <<FAdd(FMul(m[2][1], k[1][1]), FMul(m[2][2], k[2][1])),
         FAdd(FMul(m[2][1], k[1][2]), FMul(m[2][2], k[2][2]))>> >>
MScale(m, k) ==
    << <<FMul(m[1][1], k), FMul(m[1][2], k)>>,
       <<FMul(m[2][1], k), FMul(m[2][2], k)>> >>
MVec(m, v) == <<Dot(m[1], v), Dot(m[2], v)>>
Diag(v) == << <<v[1], FInt(0)>>, <<FInt(0), v[2]>> >>
transpose(m) == << <<m[1][1], m[2][1]>>, <<m[1][2], m[2][2]>> >>
determinant(m) == FSub(FMul(m[1][1], m[2][2]), FMul(m[1][2], m[2][1]))
Zeros2 == << <<FInt(0), FInt(0)>>, <<FInt(0), FInt(0)>> >>

(* The sum of f[lo..hi], by quarters (a loop that accumulates a sum).      *)
RECURSIVE SumOver(_, _, _)
SumOver(f, lo, hi) ==
    IF hi - lo < 4
    THEN (IF lo <= hi THEN f[lo] ELSE 0) + (IF lo + 1 <= hi THEN f[lo + 1] ELSE 0)
         + (IF lo + 2 <= hi THEN f[lo + 2] ELSE 0) + (IF lo + 3 <= hi THEN f[lo + 3] ELSE 0)
    ELSE LET q == (hi - lo + 1) \div 4
         IN  SumOver(f, lo, lo + q - 1) + SumOver(f, lo + q, lo + 2 * q - 1)
             + SumOver(f, lo + 2 * q, lo + 3 * q - 1) + SumOver(f, lo + 3 * q, hi)

(* Statements in program order: every local of `steps` is computed, first  *)
(* to last, and the value is that of the last one.                         *)
InOrder(steps) == steps[Len(steps)]

(* A Vec or an image buffer: the function f with every element stored.    *)
Stored(f) == f @@ <<>>

---------------------------------------------------------------------------
(* enum FaceDirection                                                      *)

FaceDirection == {"Left", "Right", "Straight"}

(* struct FaceDetectionAbsolute { keypoints: [[f32; 2]; 5] }.              *)
(* keypoints[1..5] = left eye, right eye, nose, left mouth, right mouth    *)
(* (the source indexes them 0..4); a point is <<x, y>>.                    *)
PX(p) == p[1]
PY(p) == p[2]

left_eye(det) == det.keypoints[1]
right_eye(det) == det.keypoints[2]
nose(det) == det.keypoints[3]
left_mouth(det) == det.keypoints[4]
right_mouth(det) == det.keypoints[5]

eye_distance_x(det) == FAbs(FSub(PX(right_eye(det)), PX(left_eye(det))))
eye_distance_y(det) == FAbs(FSub(PY(right_eye(det)), PY(left_eye(det))))
mouth_distance_y(det) == FAbs(FSub(PY(right_mouth(det)), PY(left_mouth(det))))

(* Mutant of face_is_upright: the mouth corners are not looked at.         *)
face_is_upright_eyes_only(det) ==
    FLt(FAdd(FMax(PY(left_eye(det)), PY(right_eye(det))),
             FMul(Frac(1, 2), eye_distance_y(det))),
        PY(nose(det)))

face_is_upright(det) ==
    /\ FLt(FAdd(FMax(PY(left_eye(det)), PY(right_eye(det))),
                FMul(Frac(1, 2), eye_distance_y(det))),
           PY(nose(det)))
    /\ FLt(FAdd(PY(nose(det)), FMul(Frac(1, 2), mouth_distance_y(det))),
           FMin(PY(left_mouth(det)), PY(right_mouth(det))))

nose_sticking_out_left(det) ==
    /\ FLt(PX(nose(det)), FMin(PX(left_eye(det)), PX(right_eye(det))))
    /\ FLt(PX(nose(det)), FMin(PX(left_mouth(det)), PX(right_mouth(det))))

nose_sticking_out_right(det) ==
    /\ FLt(FMax(PX(left_eye(det)), PX(right_eye(det))), PX(nose(det)))
    /\ FLt(FMax(PX(left_mouth(det)), PX(right_mouth(det))), PX(nose(det)))

nose_close_to_left_eye(det) ==
    FLt(FAbs(FSub(PX(nose(det)), PX(left_eye(det)))),
        FMul(Frac(1, 5), eye_distance_x(det)))

(* Mutant of nose_close_to_right_eye: the factor 0.2 is dropped.           *)
nose_close_to_right_eye_no_factor(det) ==
    FLt(FAbs(FSub(PX(nose(det)), PX(right_eye(det)))), eye_distance_x(det))

nose_close_to_right_eye(det) ==
    FLt(FAbs(FSub(PX(nose(det)), PX(right_eye(det)))),
        FMul(Frac(1, 5), eye_distance_x(det)))

face_direction(det) ==
    IF nose_sticking_out_left(det)
          \/ (face_is_upright(det) /\ nose_close_to_left_eye(det))
    THEN "Left"
    ELSE IF nose_sticking_out_right(det)
          \/ (face_is_upright(det) /\ nose_close_to_right_eye(det))
    THEN "Right"
    ELSE "Straight"


---------------------------------------------------------------------------
(* Constants of the module                                                 *)

FACE_SIZE == 112
LAPLACIAN_HARD_THRESHOLD == 10
REMOVE_SIDE_COLUMNS == 56

(* image::RgbImage: width, height and the pixels in row-major order,       *)
(* data[y * width + x] = <<r, g, b>>.                                      *)
get_pixel(image, x, y) == image.data[y * image.width + x]

---------------------------------------------------------------------------
(* MlResult<T>: Ok(value) or Err(MlError)                                  *)

Ok(value) == [ok |-> TRUE, value |-> value]
Err(kind, message) == [ok |-> FALSE, error |-> [kind |-> kind, message |-> message]]

---------------------------------------------------------------------------
(* Similarity transform from the five landmarks to the canonical template  *)

(* The template, in the unit square.  The source writes 38.2946 / 112.0,   *)
(* 51.6963 / 112.0, ...; the model holds each numerator to the nearest     *)
(* whole pixel of the 112 grid, which keeps the singular values of the     *)
(* covariance matrices of the model's landmark sets rational.              *)
MOBILEFACENET_IDEAL_5_LANDMARKS ==
    << <<Frac(38, 112), Frac(52, 112)>>,
       <<Frac(74, 112), Frac(52, 112)>>,
       <<Frac(56, 112), Frac(72, 112)>>,
       <<Frac(42, 112), Frac(92, 112)>>,
       <<Frac(71, 112), Frac(92, 112)>> >>

(* The loop of mean_2d after its first k iterations.                       *)
mean_2d_add(sum, point) == InOrder(<<sum, <<FAdd(sum[1], point[1]), FAdd(sum[2], point[2])>> >>)

RECURSIVE mean_2d_sum(_, _)
mean_2d_sum(points, k) ==
    IF k = 0 THEN <<FInt(0), FInt(0)>>
    ELSE mean_2d_add(mean_2d_sum(points, k - 1), points[k])

mean_2d(points) == VDiv(mean_2d_sum(points, Len(points)), FInt(Len(points)))

(* One iteration of the loop over src_points zipped with the template:     *)
(* `a +=` and `src_var_sum +=`.                                            *)
covariance_add(before, src_d, dst_d) ==
    InOrder(<<before, src_d, dst_d,
              [a |-> MAdd(before.a, Outer(dst_d, src_d)),
               src_var_sum |-> FAdd(before.src_var_sum, Dot(src_d, src_d))]>>)

(* The loop after its first k iterations: the locals a and src_var_sum.    *)
RECURSIVE covariance_loop(_, _, _, _, _)
covariance_loop(src_points, dst_points, src_mean, dst_mean, k) ==
    IF k = 0 THEN [a |-> Zeros2, src_var_sum |-> FInt(0)]
    ELSE covariance_add(
             covariance_loop(src_points, dst_points, src_mean, dst_mean, k - 1),
             VSub(src_points[k], src_mean), VSub(dst_points[k], dst_mean))

(* `a /= n` and `src_var_sum /= n`.                                        *)
covariance_over(src_mean, dst_mean, summed, n) ==
    InOrder(<<summed,
              [src_mean |-> src_mean, dst_mean |-> dst_mean,
               a |-> MScale(summed.a, FDiv(FInt(1), n)),
               src_var_sum |-> FDiv(summed.src_var_sum, n)]>>)

(* From `let n` to `src_var_sum /= n`, given the two means.                *)
covariance_about(src_points, dst_points, src_mean, dst_mean) ==
    InOrder(<<src_mean, dst_mean,
              covariance_over(src_mean, dst_mean,
                              covariance_loop(src_points, dst_points, src_mean, dst_mean,
                                              Min(Len(src_points), Len(dst_points))),
                              FInt(Len(src_points)))>>)

(* The locals src_mean, dst_mean, a and src_var_sum after `a /= n` and     *)
(* `src_var_sum /= n`.                                                     *)
covariance(src_points) ==
    covariance_about(src_points, MOBILEFACENET_IDEAL_5_LANDMARKS, mean_2d(src_points),
                     mean_2d(MOBILEFACENET_IDEAL_5_LANDMARKS))

(* Mutant of reflection_d: the sign of the determinant is not looked at.   *)
reflection_d_always_one(a) == <<FInt(1), FInt(1)>>

(* The local d before the decomposition: (1, 1), or (1, -1) when           *)
(* a.determinant() < 0.                                                    *)
reflection_d(a) ==
    IF FLt(determinant(a), FInt(0)) THEN <<FInt(1), FInt(-1)>>
    ELSE <<FInt(1), FInt(1)>>

(* nalgebra's a.svd(true, true).  The decomposition is a library routine;  *)
(* the model takes any answer that is a singular value decomposition of a  *)
(* over the orthogonal matrices with entries 0, 1 and -1: u and v_t        *)
(* orthogonal, the singular values non-negative and sorted in decreasing   *)
(* order, and u * diag(singular) * v_t = a.  With compute_u and compute_v  *)
(* both true, u and v_t are always Some.                                   *)
Orthogonal2 ==
    { << <<FInt(p), FInt(0)>>, <<FInt(0), FInt(q)>> >> : p \in {-1, 1}, q \in {-1, 1} }
    \cup
    { << <<FInt(0), FInt(p)>>, <<FInt(q), FInt(0)>> >> : p \in {-1, 1}, q \in {-1, 1} }

SvdOracle(a) ==
    LET magnitudes == { FAbs(a[i][j]) : i \in {1, 2}, j \in {1, 2} }
        answers == { [u |-> u, singular |-> <<s1, s2>>, v_t |-> v_t] :
                        u \in Orthogonal2, v_t \in Orthogonal2,
                        s1 \in magnitudes, s2 \in magnitudes }
    IN  { svd \in answers :
            /\ FLe(svd.singular[2], svd.singular[1])
            /\ MMul(MMul(svd.u, Diag(svd.singular)), svd.v_t) = a }

(* v > 1e-6: n / d > 10^-6 iff n > floor(d / 10^6).                        *)
above_rank_threshold(v) == v.n > v.d \div 1000000

(* Mutant of rank_of: zero singular values are counted too.                *)
rank_of_counting_zeros(singular) ==
    Cardinality({ i \in DOMAIN singular : singular[i].n >= 0 })

(* singular.iter().filter(|v| **v > 1e-6).count()                          *)
rank_of(singular) ==
    Cardinality({ i \in DOMAIN singular : above_rank_threshold(singular[i]) })

(* The if/else that assigns r: the locals r and d after it.                *)
rotation_of(rank, u, v_t, d) ==
    IF rank = 1
    THEN IF FLt(FInt(0), FMul(determinant(u), determinant(transpose(v_t))))
         THEN [r |-> MMul(u, v_t), d |-> d]
         ELSE LET last == d[2]
                  d_local == [d EXCEPT ![2] = FInt(-1)]
              IN  [r |-> MMul(MMul(u, Diag(d_local)), v_t),
                   d |-> [d EXCEPT ![2] = last]]
    ELSE [r |-> MMul(MMul(u, Diag(d)), v_t), d |-> d]

scale_of(src_var_sum, singular, d) ==
    IF LeEpsilon(src_var_sum) THEN FInt(1)
    ELSE FDiv(FAdd(FMul(singular[1], d[1]), FMul(singular[2], d[2])), src_var_sum)

(* f32::atan2(y, x).  The angle is held as its sine and cosine, which for  *)
(* the first column of a rotation matrix are y and x themselves.           *)
atan2(y, x) == [sin |-> y, cos |-> x]

(* let size = if scale.abs() < f32::EPSILON { 1.0 } else { 1.0 / scale }   *)
size_of(scale) == IF AbsLtEpsilon(scale) THEN FInt(1) ELSE FDiv(FInt(1), scale)

(* The AlignmentResult from the locals translation, r_scaled and size: the *)
(* matrix t, rotation, mean_translation and center.                        *)
alignment_with(r, src_mean_v, dst_mean_v, translation, r_scaled, size) ==
    InOrder(<<translation, r_scaled, size,
              [affine_matrix |->
                   << <<r_scaled[1][1], r_scaled[1][2], translation[1]>>,
                      <<r_scaled[2][1], r_scaled[2][2], translation[2]>>,
                      <<FInt(0), FInt(0), FInt(1)>> >>,
               center |-> VSub(src_mean_v,
                               VScale(VSub(dst_mean_v, <<Frac(1, 2), Frac(1, 2)>>), size)),
               size |-> size,
               rotation |-> atan2(r[2][1], r[1][1])]>>)

(* From `let src_mean_v` to the AlignmentResult { ... }.                   *)
alignment_of(r, scale, src_mean, dst_mean) ==
    alignment_with(r, src_mean, dst_mean,
                   VSub(dst_mean, VScale(MVec(r, src_mean), scale)),
                   MScale(r, scale), size_of(scale))

RankZeroError ==
    Err("Postprocess", "failed to estimate similarity transform (rank=0)")

(* From `let scale` on, given the locals r and d after the if/else.        *)
estimate_from_rotation(c, svd, rd) ==
    InOrder(<<rd, Ok(alignment_of(rd.r, scale_of(c.src_var_sum, svd.singular, rd.d),
                                  c.src_mean, c.dst_mean))>>)

(* From `if rank == 0` on.                                                 *)
estimate_from_rank(c, svd, d, rank) ==
    InOrder(<<c, d, rank,
              IF rank = 0 THEN RankZeroError
              ELSE estimate_from_rotation(c, svd,
                                          rotation_of(rank, svd.u, svd.v_t, d))>>)

(* From `let mut d` on, given the locals of the covariance and the         *)
(* decomposition the library answered.                                     *)
estimate_from_covariance(c, svd) ==
    estimate_from_rank(c, svd, reflection_d(c.a), rank_of(svd.singular))

(* The whole function, given the decomposition the library answered.       *)
estimate_similarity_transform(src_points, svd) ==
    estimate_from_covariance(covariance(src_points), svd)

---------------------------------------------------------------------------
(* Source image, warp and tensor                                           *)

(* Option<T>                                                               *)
Some(value) == [some |-> TRUE, value |-> value]
None == [some |-> FALSE]

(* Mutant of rgb_image_from_decoded: a buffer up to one pixel short is     *)
(* accepted, the missing bytes read as 0.                                  *)
rgb_image_from_decoded_one_pixel_short(decoded) ==
    LET width == decoded.dimensions.width
        height == decoded.dimensions.height
        byte(i) == IF i <= Len(decoded.rgb) THEN decoded.rgb[i] ELSE 0
    IN  IF Len(decoded.rgb) + 3 >= width * height * 3
        THEN Ok([width |-> width, height |-> height,
                 data |-> Stored([k \in 0..(width * height - 1) |->
                             <<byte(3 * k + 1), byte(3 * k + 2), byte(3 * k + 3)>>])])
        ELSE Err("Preprocess", "failed to build RGB source image")

(* ImageBuffer::from_raw(width, height, buf) is Some exactly when buf      *)
(* holds at least width * height * 3 bytes; pixel k is then bytes 3k,      *)
(* 3k + 1, 3k + 2 of the buffer (decoded.rgb[1] is byte 0).                *)
rgb_image_from_decoded(decoded) ==
    LET width == decoded.dimensions.width
        height == decoded.dimensions.height
    IN  IF Len(decoded.rgb) >= width * height * 3
        THEN Ok([width |-> width, height |-> height,
                 data |-> Stored([k \in 0..(width * height - 1) |->
                             <<decoded.rgb[3 * k + 1], decoded.rgb[3 * k + 2],
                               decoded.rgb[3 * k + 3]>>])])
        ELSE Err("Preprocess", "failed to build RGB source image")

to_absolute_detection(detection, image_width, image_height) ==
    LET width == FInt(image_width)
        height == FInt(image_height)
    IN  [keypoints |-> [i \in DOMAIN detection.keypoints |->
                          <<FMul(detection.keypoints[i][1], width),
                            FMul(detection.keypoints[i][2], height)>>]]

(* The local transform of warp_face_image: an entry within f32::EPSILON of *)
(* 1 stays 1, every other entry is multiplied by FACE_SIZE.                *)
pixel_transform(affine_matrix) ==
    [row \in 1..3 |-> [col \in 1..3 |->
        LET value == affine_matrix[row][col]
        IN  IF LeEpsilon(FAbs(FSub(value, FInt(1)))) THEN FInt(1)
            ELSE FMul(value, FInt(FACE_SIZE))]]

Minor(m, r1, r2, c1, c2) == FSub(FMul(m[r1][c1], m[r2][c2]), FMul(m[r1][c2], m[r2][c1]))

determinant3(m) ==
    FAdd(FSub(FMul(m[1][1], Minor(m, 2, 3, 2, 3)),
              FMul(m[1][2], Minor(m, 2, 3, 1, 3))),
         FMul(m[1][3], Minor(m, 2, 3, 1, 2)))

(* The inverse of a 3 x 3 matrix with determinant det # 0: the transposed  *)
(* matrix of cofactors over det.                                           *)
inverse3(m, det) ==
    << <<FDiv(Minor(m, 2, 3, 2, 3), det), FDiv(FNeg(Minor(m, 1, 3, 2, 3)), det),
         FDiv(Minor(m, 1, 2, 2, 3), det)>>,
       <<FDiv(FNeg(Minor(m, 2, 3, 1, 3)), det), FDiv(Minor(m, 1, 3, 1, 3), det),
         FDiv(FNeg(Minor(m, 1, 2, 1, 3)), det)>>,
       <<FDiv(Minor(m, 2, 3, 1, 2), det), FDiv(FNeg(Minor(m, 1, 3, 1, 2)), det),
         FDiv(Minor(m, 1, 2, 1, 2), det)>> >>

(* imageproc's Projection::from_matrix: None for a matrix that has no      *)
(* inverse, otherwise the matrix together with its inverse.                *)
projection_of(transform, det) ==
    InOrder(<<transform, det,
              IF det.n = 0 THEN None
              ELSE Some([transform |-> transform,
                         inverse |-> inverse3(transform, det)])>>)

from_matrix(transform) == projection_of(transform, determinant3(transform))

Lcm(x, y) == (x \div Gcd(x, y)) * y

(* The least common denominator of the entries of a 3 x 3 matrix, and the  *)
(* matrix of numerators over it.                                           *)
common_denominator(m) ==
    Lcm(Lcm(Lcm(Lcm(m[1][1].d, m[1][2].d), Lcm(m[1][3].d, m[2][1].d)),
            Lcm(Lcm(m[2][2].d, m[2][3].d), Lcm(m[3][1].d, m[3][2].d))),
        m[3][3].d)

numerators_over(m, den) ==
    [row \in 1..3 |-> [col \in 1..3 |-> m[row][col].n * (den \div m[row][col].d)]]

(* One pixel of warp_into: the output pixel (x, y) is taken from the       *)
(* source at inverse * (x, y, 1), and is `default` when that point falls   *)
(* outside the source.  num is the inverse as integers over one positive   *)
(* denominator.  The source is sampled at the nearest pixel; the weights   *)
(* of the bicubic kernel are not part of the model.                        *)
warp_pixel(image, num, default, x, y) ==
    LET px == num[1][1] * x + num[1][2] * y + num[1][3]
        py == num[2][1] * x + num[2][2] * y + num[2][3]
        pw == num[3][1] * x + num[3][2] * y + num[3][3]
    IN  IF pw = 0 THEN default
        ELSE LET sign == IF pw < 0 THEN -1 ELSE 1
                 sx == (2 * sign * px + sign * pw) \div (2 * sign * pw)
                 sy == (2 * sign * py + sign * pw) \div (2 * sign * pw)
             IN  IF sx >= 0 /\ sx < image.width /\ sy >= 0 /\ sy < image.height
                 THEN get_pixel(image, sx, sy)
                 ELSE default

(* imageproc's warp_into(image, projection, interpolation, default, out).  *)
warp_into(image, projection, default, out) ==
    LET den == common_denominator(projection.inverse)
        num == numerators_over(projection.inverse, den)
    IN  InOrder(<<den, num,
        [width |-> out.width, height |-> out.height,
         data |-> Stored([k \in 0..(out.width * out.height - 1) |->
                     warp_pixel(image, num, default, k % out.width, k \div out.width)])]>>)

(* RgbImage::from_pixel(width, height, pixel)                              *)
from_pixel(width, height, pixel) ==
    [width |-> width, height |-> height,
     data |-> Stored([k \in 0..(width * height - 1) |-> pixel])]

(* From the ok_or_else on: the projection is None or Some.                 *)
warp_with(source, projection) ==
    InOrder(<<projection,
              IF ~projection.some
              THEN Err("Postprocess", "invalid affine matrix projection")
              ELSE Ok(warp_into(source, projection.value, <<114, 114, 114>>,
                                from_pixel(FACE_SIZE, FACE_SIZE, <<114, 114, 114>>)))>>)

warp_face_image(source, affine_matrix) ==
    warp_with(source, from_matrix(pixel_transform(affine_matrix)))

(* Mutant of normalize_face_rgb_for_mobilefacenet: the last pixel is not   *)
(* pushed.                                                                 *)
normalize_face_rgb_without_last_pixel(image) ==
    Stored([k \in 1..((FACE_SIZE * FACE_SIZE - 1) * 3) |->
        LET px == get_pixel(image, ((k - 1) \div 3) % FACE_SIZE,
                            ((k - 1) \div 3) \div FACE_SIZE)
        IN  Frac(2 * px[((k - 1) % 3) + 1] - 255, 255)])

(* The pushes of the two loops in order: entry k of the output is channel  *)
(* (k - 1) % 3 of pixel (k - 1) \div 3 in row-major order, as              *)
(* px / 127.5 - 1.0 = (2 px - 255) / 255.                                  *)
normalize_face_rgb_for_mobilefacenet(image) ==
    Stored([k \in 1..(FACE_SIZE * FACE_SIZE * 3) |->
        LET px == get_pixel(image, ((k - 1) \div 3) % FACE_SIZE,
                            ((k - 1) \div 3) \div FACE_SIZE)
        IN  Frac(2 * px[((k - 1) % 3) + 1] - 255, 255)])

(* crate::ml::types::to_face_id: a face id that is a function of the file  *)
(* id and the box, different for different files or boxes.                 *)
to_face_id(file_id, box_xyxy) == <<file_id, box_xyxy>>

---------------------------------------------------------------------------
(* Blur score                                                              *)

(* (0.299 r + 0.587 g + 0.114 b).round().clamp(0, 255), in thousandths;    *)
(* f32::round rounds half away from zero and the sum is never negative.    *)
Luma(px) ==
    LET weighted == 299 * px[1] + 587 * px[2] + 114 * px[3]
        rounded == (weighted + 500) \div 1000
    IN  Max(0, Min(255, rounded))

(* Returns (gray, h, w).                                                   *)
to_grayscale_buffer(image) ==
    LET w == image.width
        h == image.height
    IN  [data |-> Stored([k \in 0..(w * h - 1) |->
                             Luma(get_pixel(image, k % w, k \div w))]),
         rows |-> h, cols |-> w]

(* usize::saturating_sub                                                   *)
saturating_sub(x, y) == IF x >= y THEN x - y ELSE 0

(* Mutant of start_col_of: Left and Right crop the wrong side.             *)
start_col_of_swapped(dir) ==
    CASE dir = "Straight" -> REMOVE_SIDE_COLUMNS \div 2
      [] dir = "Left" -> 0
      [] dir = "Right" -> REMOVE_SIDE_COLUMNS

start_col_of(dir) ==
    CASE dir = "Straight" -> REMOVE_SIDE_COLUMNS \div 2
      [] dir = "Left" -> REMOVE_SIDE_COLUMNS
      [] dir = "Right" -> 0

(* The value of cell (r, c) of `p` after one iteration of the loop at       *)
(* lines 350-353 for the column c of that cell: first                      *)
(*   padded[1 + col] = padded[2 * padded_cols + 1 + col]                   *)
(* then                                                                    *)
(*   padded[(rows + 1) * padded_cols + 1 + col]                            *)
(*       = padded[(rows - 1) * padded_cols + 1 + col].                     *)
(* An iteration reads and writes cells of its own column only, so the      *)
(* iterations do not interfere; the second assignment reads what the first *)
(* one wrote when rows - 1 = 0.                                            *)
AfterTopWrite(p, padded_cols, r, c) ==
    IF r = 0 THEN p[2 * padded_cols + c] ELSE p[r * padded_cols + c]

AfterBottomWrite(p, rows, padded_cols, r, c) ==
    IF r = rows + 1 THEN AfterTopWrite(p, padded_cols, rows - 1, c)
    ELSE AfterTopWrite(p, padded_cols, r, c)

(* The value of cell (r, c) after one iteration of the loop at lines       *)
(* 356-360 for the row r of that cell: first                               *)
(*   padded[row_start] = padded[row_start + 2]                             *)
(* then                                                                    *)
(*   padded[row_start + padded_cols - 1] = padded[row_start + padded_cols - 3]. *)
(* An iteration reads and writes cells of its own row only.                *)
AfterLeftWrite(p, padded_cols, r, c) ==
    IF c = 0 THEN p[r * padded_cols + 2] ELSE p[r * padded_cols + c]

AfterRightWrite(p, padded_cols, r, c) ==
    IF c = padded_cols - 1 THEN AfterLeftWrite(p, padded_cols, r, padded_cols - 3)
    ELSE AfterLeftWrite(p, padded_cols, r, c)

(* Returns (padded, padded_rows, padded_cols).  The first loop (lines      *)
(* 343-347) reads only `image` and writes each interior cell once; the     *)
(* cells it leaves alone keep the 0 of vec![0i32; ...].                    *)
pad_image_for_direction(image, rows, cols, dir) ==
    LET padded_cols == cols + 2 - REMOVE_SIDE_COLUMNS
        padded_rows == rows + 2
        start_col == start_col_of(dir)
        copy_cols == saturating_sub(padded_cols, 2)
        cells == 0..(padded_rows * padded_cols - 1)
        copied == Stored([k \in cells |->
                     LET r == k \div padded_cols
                         c == k % padded_cols
                     IN  IF r >= 1 /\ r <= rows /\ c >= 1 /\ c <= copy_cols
                         THEN image[(r - 1) * cols + ((c - 1) + start_col)]
                         ELSE 0])
        with_rows == Stored([k \in cells |->
                     LET r == k \div padded_cols
                         c == k % padded_cols
                     IN  IF copy_cols > 0 /\ c >= 1 /\ c <= copy_cols
                         THEN AfterBottomWrite(copied, rows, padded_cols, r, c)
                         ELSE copied[k]])
        with_cols == Stored([k \in cells |->
                     AfterRightWrite(with_rows, padded_cols,
                                     k \div padded_cols, k % padded_cols)])
    IN  InOrder(<<copied, with_rows, with_cols,
                  [data |-> with_cols, rows |-> padded_rows, cols |-> padded_cols]>>)

(* Mutant of apply_laplacian: the bottom neighbour is left out.            *)
apply_laplacian_no_bottom(pad, padded_rows, padded_cols) ==
    LET rows == saturating_sub(padded_rows, 2)
        cols == saturating_sub(padded_cols, 2)
    IN  [data |-> Stored([k \in 0..(rows * cols - 1) |->
                     LET i == k \div cols
                         j == k % cols
                         top == pad[i * padded_cols + (j + 1)]
                         left == pad[(i + 1) * padded_cols + j]
                         center == pad[(i + 1) * padded_cols + (j + 1)]
                         right == pad[(i + 1) * padded_cols + (j + 2)]
                     IN  top + left - (4 * center) + right]),
         rows |-> rows, cols |-> cols]

(* Returns (out, rows, cols).                                              *)
apply_laplacian(pad, padded_rows, padded_cols) ==
    LET rows == saturating_sub(padded_rows, 2)
        cols == saturating_sub(padded_cols, 2)
    IN  [data |-> Stored([k \in 0..(rows * cols - 1) |->
                     LET i == k \div cols
                         j == k % cols
                         top == pad[i * padded_cols + (j + 1)]
                         left == pad[(i + 1) * padded_cols + j]
                         center == pad[(i + 1) * padded_cols + (j + 1)]
                         right == pad[(i + 1) * padded_cols + (j + 2)]
                         bottom == pad[(i + 2) * padded_cols + (j + 1)]
                     IN  top + left - (4 * center) + right + bottom]),
         rows |-> rows, cols |-> cols]

(* mean = sum / total; variance = (sum of (value - mean)^2) / total.       *)
(* With S the sum of the values and Q the sum of their squares this is     *)
(* (total * Q - S * S) / total^2, which is how the fraction is computed.   *)
variance_2d(matrix, rows, cols) ==
    IF rows = 0 \/ cols = 0 THEN FInt(0)
    ELSE LET total == rows * cols
             S == SumOver(matrix, 0, total - 1)
             Q == SumOver([k \in 0..(total - 1) |-> matrix[k] * matrix[k]], 0, total - 1)
         IN  InOrder(<<S, Q, Frac(total * Q - S * S, total * total)>>)

(* f32::is_finite: a fraction with a non-zero denominator is finite.       *)
is_finite(x) == x.d # 0

(* From `let (laplacian, ...)` on: the locals padded, laplacian and        *)
(* variance, each from the one before.                                     *)
blur_of_variance(variance) ==
    IF is_finite(variance) THEN variance ELSE FInt(LAPLACIAN_HARD_THRESHOLD + 1)

blur_of_laplacian(l) ==
    InOrder(<<l, blur_of_variance(variance_2d(l.data, l.rows, l.cols))>>)

blur_of_padded(p) ==
    InOrder(<<p, blur_of_laplacian(apply_laplacian(p.data, p.rows, p.cols))>>)

blur_of_gray(g, dir) ==
    InOrder(<<g, blur_of_padded(pad_image_for_direction(g.data, g.rows, g.cols, dir))>>)

compute_blur_value(image, dir) == blur_of_gray(to_grayscale_buffer(image), dir)

---------------------------------------------------------------------------
(* Specification SpecDirection: face_direction applied to landmarks drawn  *)
(* from a grid.                                                            *)

EyeXs == {0, 6, 12}
NoseXs == {-1, 0, 1, 5, 6, 7, 11, 12, 13}
MouthXs == {0, 12}
EyeYs == {0, 1, 2}
NoseYs == {1, 2, 3, 4}
MouthYs == {3, 4, 5, 6}

IdleBlur ==
    /\ blur_pc = "idle"
    /\ face_image = <<>>
    /\ direction = "Straight"
    /\ gray = <<>>
    /\ padded = <<>>
    /\ laplacian = <<>>
    /\ blur_returned = FInt(0)

InitDirection ==
    /\ \E lx \in EyeXs, rx \in EyeXs, nx \in NoseXs, mlx \in MouthXs, mrx \in MouthXs,
          ly \in EyeYs, ry \in EyeYs, ny \in NoseYs, mly \in MouthYs, mry \in MouthYs :
          dir_detection =
              [keypoints |-> << <<FInt(lx), FInt(ly)>>, <<FInt(rx), FInt(ry)>>,
                                <<FInt(nx), FInt(ny)>>, <<FInt(mlx), FInt(mly)>>,
                                <<FInt(mrx), FInt(mry)>> >>]
    /\ dir_result = "pending"
    /\ IdleBlur
    /\ est = [pc |-> "idle"]
    /\ run = [pc |-> "idle"]
    /\ first_call = [some |-> FALSE]

Classify ==
    /\ dir_result = "pending"
    /\ dir_result' = face_direction(dir_detection)
    /\ UNCHANGED <<dir_detection, blurVars, estVars, runVars>>

NextDirection == Classify

SpecDirection == InitDirection /\ [][NextDirection]_vars

---------------------------------------------------------------------------
(* Specification SpecBlur: compute_blur_value applied to a warped face,    *)
(* one local of the function per step.                                     *)

(* A 112 x 112 face of one colour.                                         *)
FlatFace(colour) ==
    [width |-> FACE_SIZE, height |-> FACE_SIZE,
     data |-> [k \in 0..(FACE_SIZE * FACE_SIZE - 1) |-> colour]]

(* A 112 x 112 face whose colour changes from pixel to pixel: channel c of *)
(* pixel (x, y) is base[c] + (kx[c] * x + ky[c] * y) \div 4.               *)
ShadedFace(q) ==
    [width |-> FACE_SIZE, height |-> FACE_SIZE,
     data |-> [k \in 0..(FACE_SIZE * FACE_SIZE - 1) |->
                 LET x == k % FACE_SIZE
                     y == k \div FACE_SIZE
                 IN  << q.base[1] + (q.kx[1] * x + q.ky[1] * y) \div 4,
                        q.base[2] + (q.kx[2] * x + q.ky[2] * y) \div 4,
                        q.base[3] + (q.kx[3] * x + q.ky[3] * y) \div 4 >>]]

FlatColours ==
    { <<0, 0, 0>>, <<255, 255, 255>>, <<114, 114, 114>>, <<255, 0, 0>>,
      <<0, 255, 0>>, <<0, 0, 255>>, <<1, 2, 3>>, <<200, 100, 50>>,
      <<1, 0, 2>>, <<17, 230, 96>> }

Shadings ==
    { [base |-> <<0, 0, 0>>, kx |-> <<4, 4, 4>>, ky |-> <<4, 4, 4>>],
      [base |-> <<10, 20, 30>>, kx |-> <<4, 0, 2>>, ky |-> <<0, 4, 2>>],
      [base |-> <<0, 0, 0>>, kx |-> <<8, 8, 8>>, ky |-> <<1, 1, 1>>],
      [base |-> <<100, 0, 50>>, kx |-> <<1, 5, 3>>, ky |-> <<4, 2, 0>>] }

IdleDirection ==
    /\ dir_detection = [keypoints |-> <<>>]
    /\ dir_result = "idle"

InitBlur ==
    /\ blur_pc = "start"
    /\ \/ \E colour \in FlatColours : face_image = FlatFace(colour)
       \/ \E q \in Shadings : face_image = ShadedFace(q)
    /\ direction \in FaceDirection
    /\ gray = <<>>
    /\ padded = <<>>
    /\ laplacian = <<>>
    /\ blur_returned = FInt(0)
    /\ IdleDirection
    /\ est = [pc |-> "idle"]
    /\ run = [pc |-> "idle"]
    /\ first_call = [some |-> FALSE]

BlurGray ==
    /\ blur_pc = "start"
    /\ gray' = to_grayscale_buffer(face_image)
    /\ blur_pc' = "gray"
    /\ UNCHANGED <<face_image, direction, padded, laplacian, blur_returned>>

BlurPad ==
    /\ blur_pc = "gray"
    /\ padded' = pad_image_for_direction(gray.data, gray.rows, gray.cols, direction)
    /\ blur_pc' = "padded"
    /\ UNCHANGED <<face_image, direction, gray, laplacian, blur_returned>>

BlurLaplacian ==
    /\ blur_pc = "padded"
    /\ laplacian' = apply_laplacian(padded.data, padded.rows, padded.cols)
    /\ blur_pc' = "laplacian"
    /\ UNCHANGED <<face_image, direction, gray, padded, blur_returned>>

BlurVariance ==
    /\ blur_pc = "laplacian"
    /\ LET variance == variance_2d(laplacian.data, laplacian.rows, laplacian.cols)
       IN  blur_returned' = IF is_finite(variance) THEN variance
                         ELSE FInt(LAPLACIAN_HARD_THRESHOLD + 1)
    /\ blur_pc' = "done"
    /\ UNCHANGED <<face_image, direction, gray, padded, laplacian>>

NextBlur ==
    \/ BlurGray /\ UNCHANGED <<dirVars, estVars, runVars>>
    \/ BlurPad /\ UNCHANGED <<dirVars, estVars, runVars>>
    \/ BlurLaplacian /\ UNCHANGED <<dirVars, estVars, runVars>>
    \/ BlurVariance /\ UNCHANGED <<dirVars, estVars, runVars>>

SpecBlur == InitBlur /\ [][NextBlur]_vars

---------------------------------------------------------------------------
(* Specification SpecEst: estimate_similarity_transform applied to five    *)
(* points, one group of statements per step; est holds the locals.         *)

Points(xs, ys) == [i \in 1..5 |-> <<FInt(xs[i]), FInt(ys[i])>>]

EstimateInputs ==
    { \* a face looking straight at the camera
      Points(<<2, 18, 10, 2, 18>>, <<2, 0, 5, 13, 15>>),
      \* the same face mirrored, upside down, and both
      Points(<<18, 2, 10, 18, 2>>, <<2, 0, 5, 13, 15>>),
      Points(<<2, 18, 10, 2, 18>>, <<13, 15, 10, 2, 0>>),
      Points(<<18, 2, 10, 18, 2>>, <<13, 15, 10, 2, 0>>),
      \* a narrow face, mirrored, and turned by a quarter turn either way
      Points(<<0, 12, 6, 1, 11>>, <<0, 1, 7, 22, 20>>),
      Points(<<12, 0, 6, 11, 1>>, <<0, 1, 7, 22, 20>>),
      Points(<<0, 1, 7, 22, 20>>, <<12, 0, 6, 11, 1>>),
      Points(<<24, 23, 17, 2, 4>>, <<0, 12, 6, 1, 11>>),
      Points(<<0, 1, 7, 22, 20>>, <<0, 12, 6, 1, 11>>),
      \* landmarks on one horizontal or one vertical line
      Points(<<2, 18, 10, 2, 18>>, <<5, 5, 5, 5, 5>>),
      Points(<<18, 2, 10, 18, 2>>, <<5, 5, 5, 5, 5>>),
      Points(<<4, 4, 4, 4, 4>>, <<2, 0, 5, 13, 15>>),
      \* all five landmarks the same point
      Points(<<7, 7, 7, 7, 7>>, <<7, 7, 7, 7, 7>>),
      Points(<<0, 0, 0, 0, 0>>, <<0, 0, 0, 0, 0>>) }

InitEst ==
    /\ \E src_points \in EstimateInputs : est = [pc |-> "entry", src_points |-> src_points]
    /\ IdleDirection
    /\ IdleBlur
    /\ run = [pc |-> "idle"]
    /\ first_call = [some |-> FALSE]

EstCovariance ==
    /\ est.pc = "entry"
    /\ \E c \in {covariance(est.src_points)} :
          est' = [pc |-> "covariance", src_points |-> est.src_points,
                  src_mean |-> c.src_mean, dst_mean |-> c.dst_mean,
                  a |-> c.a, src_var_sum |-> c.src_var_sum]

EstReflection ==
    /\ est.pc = "covariance"
    /\ est' = [pc |-> "d", src_points |-> est.src_points,
               src_mean |-> est.src_mean, dst_mean |-> est.dst_mean,
               a |-> est.a, src_var_sum |-> est.src_var_sum,
               d |-> reflection_d(est.a)]

EstSvd ==
    /\ est.pc = "d"
    /\ \E svd \in SvdOracle(est.a) :
          est' = [pc |-> "svd", src_points |-> est.src_points,
                  src_mean |-> est.src_mean, dst_mean |-> est.dst_mean,
                  a |-> est.a, src_var_sum |-> est.src_var_sum, d |-> est.d,
                  u |-> svd.u, v_t |-> svd.v_t, singular |-> svd.singular]

EstRank ==
    /\ est.pc = "svd"
    /\ LET rank == rank_of(est.singular)
       IN  est' = IF rank = 0
                  THEN [pc |-> "returned", src_points |-> est.src_points,
                        src_var_sum |-> est.src_var_sum,
                        singular |-> est.singular, rank |-> rank,
                        result |-> RankZeroError]
                  ELSE [pc |-> "rank", src_points |-> est.src_points,
                        src_mean |-> est.src_mean, dst_mean |-> est.dst_mean,
                        a |-> est.a, src_var_sum |-> est.src_var_sum, d |-> est.d,
                        u |-> est.u, v_t |-> est.v_t, singular |-> est.singular,
                        rank |-> rank]

EstRotation ==
    /\ est.pc = "rank"
    /\ \E rd \in {rotation_of(est.rank, est.u, est.v_t, est.d)} :
          est' = [pc |-> "r", src_points |-> est.src_points,
                  src_mean |-> est.src_mean, dst_mean |-> est.dst_mean,
                  a |-> est.a, src_var_sum |-> est.src_var_sum, d |-> rd.d,
                  u |-> est.u, v_t |-> est.v_t, singular |-> est.singular,
                  rank |-> est.rank, r |-> rd.r]

EstScale ==
    /\ est.pc = "r"
    /\ est' = [pc |-> "scale", src_points |-> est.src_points,
               src_mean |-> est.src_mean, dst_mean |-> est.dst_mean,
               a |-> est.a, src_var_sum |-> est.src_var_sum, d |-> est.d,
               u |-> est.u, v_t |-> est.v_t, singular |-> est.singular,
               rank |-> est.rank, r |-> est.r,
               scale |-> scale_of(est.src_var_sum, est.singular, est.d)]

EstReturn ==
    /\ est.pc = "scale"
    /\ est' = [pc |-> "returned", src_points |-> est.src_points,
               src_var_sum |-> est.src_var_sum,
               singular |-> est.singular, rank |-> est.rank,
               a |-> est.a, u |-> est.u, v_t |-> est.v_t, d |-> est.d,
               r |-> est.r, scale |-> est.scale,
               result |-> Ok(alignment_of(est.r, est.scale, est.src_mean, est.dst_mean))]

NextEst ==
    \/ EstCovariance /\ UNCHANGED <<dirVars, blurVars, runVars>>
    \/ EstReflection /\ UNCHANGED <<dirVars, blurVars, runVars>>
    \/ EstSvd /\ UNCHANGED <<dirVars, blurVars, runVars>>
    \/ EstRank /\ UNCHANGED <<dirVars, blurVars, runVars>>
    \/ EstRotation /\ UNCHANGED <<dirVars, blurVars, runVars>>
    \/ EstScale /\ UNCHANGED <<dirVars, blurVars, runVars>>
    \/ EstReturn /\ UNCHANGED <<dirVars, blurVars, runVars>>

SpecEst == InitEst /\ [][NextEst]_vars

---------------------------------------------------------------------------
(* Specification Spec: run_face_alignment on a photo and a list of         *)
(* detections, one statement of the function per step.  After a call that  *)
(* returned Ok the caller may call once more, with one detection of the    *)
(* first list alone.                                                       *)

MaxDetections == 2

(* A 20 x 16 photo, and the same photo with a buffer that is one byte      *)
(* short, or empty.                                                        *)
PhotoBytes ==
    [i \in 1..(20 * 16 * 3) |->
        LET k == (i - 1) \div 3
            x == k % 20
            y == k \div 20
        IN  CASE (i - 1) % 3 = 0 -> 100 + x
              [] (i - 1) % 3 = 1 -> 110 + y
              [] OTHER -> 105 + ((x + 2 * y) % 7)]

Photo == [dimensions |-> [width |-> 20, height |-> 16], rgb |-> PhotoBytes]

DecodedImages ==
    { Photo,
      [Photo EXCEPT !.rgb = SubSeq(PhotoBytes, 1, Len(PhotoBytes) - 1)],
      [Photo EXCEPT !.rgb = <<>>] }

(* Landmarks given in pixels of the photo, as relative coordinates.        *)
Relative(xs, ys) == [i \in 1..5 |-> <<Frac(xs[i], 20), Frac(ys[i], 16)>>]

Box(x1, y1, x2, y2) == <<Frac(x1, 20), Frac(y1, 16), Frac(x2, 20), Frac(y2, 16)>>

DetectionPool ==
    { \* a face looking straight at the camera
      [box_xyxy |-> Box(0, 0, 20, 16),
       keypoints |-> Relative(<<2, 18, 10, 2, 18>>, <<2, 0, 5, 13, 15>>)],
      \* a face turned to the right
      [box_xyxy |-> Box(2, 3, 18, 13),
       keypoints |-> Relative(<<3, 17, 15, 9, 11>>, <<5, 4, 8, 11, 12>>)],
      \* landmarks on one line, the nose left of the others
      [box_xyxy |-> Box(1, 5, 19, 7),
       keypoints |-> Relative(<<4, 18, 2, 6, 16>>, <<6, 6, 6, 6, 6>>)],
      \* the first face mirrored: no rotation and positive scale fits it
      [box_xyxy |-> Box(0, 0, 19, 16),
       keypoints |-> Relative(<<18, 2, 10, 18, 2>>, <<2, 0, 5, 13, 15>>)],
      \* all five landmarks the same point
      [box_xyxy |-> Box(9, 7, 11, 9),
       keypoints |-> Relative(<<10, 10, 10, 10, 10>>, <<8, 8, 8, 8, 8>>)] }

FileIds == {7}

(* The values of warp_face_image, normalize_face_rgb_for_mobilefacenet and *)
(* compute_blur_value on the photo and the detections above, computed once *)
(* and looked up; any other argument is computed on the spot.              *)

PoolAbsolute(detection) ==
    to_absolute_detection(detection, Photo.dimensions.width, Photo.dimensions.height)

PoolEstimate(c) == estimate_from_covariance(c, CHOOSE svd \in SvdOracle(c.a) : TRUE)

PoolAlignment(detection) == PoolEstimate(covariance(PoolAbsolute(detection).keypoints))

PhotoImage == rgb_image_from_decoded(Photo).value

(* The warp of every detection of the pool that has an alignment.          *)
PoolWarps ==
    { [source |-> PhotoImage,
       affine_matrix |-> entry.alignment.value.affine_matrix,
       dir |-> face_direction(entry.absolute),
       aligned |-> warp_face_image(PhotoImage, entry.alignment.value.affine_matrix)] :
      entry \in { e \in { [absolute |-> PoolAbsolute(detection),
                          alignment |-> PoolAlignment(detection)] :
                          detection \in DetectionPool } :
                  e.alignment.ok } }

(* The tensor and the blur score of every warped face of the pool.         *)
PoolFaces ==
    { [aligned |-> face.aligned.value, dir |-> face.dir,
       normalized |-> normalize_face_rgb_for_mobilefacenet(face.aligned.value),
       blur_value |-> compute_blur_value(face.aligned.value, face.dir)] :
      face \in { w \in PoolWarps : w.aligned.ok } }

(* The one element of hits, or `otherwise` when there is none.             *)
Found(hits, otherwise) == IF hits = {} THEN otherwise ELSE CHOOSE hit \in hits : TRUE

Warped(source, affine_matrix) ==
    Found({ face.aligned :
            face \in { w \in PoolWarps :
                       w.source = source /\ w.affine_matrix = affine_matrix } },
          warp_face_image(source, affine_matrix))

Normalized(image) ==
    Found({ face.normalized : face \in { f \in PoolFaces : f.aligned = image } },
          normalize_face_rgb_for_mobilefacenet(image))

Blur(image, dir) ==
    Found({ face.blur_value :
            face \in { f \in PoolFaces : f.aligned = image /\ f.dir = dir } },
          compute_blur_value(image, dir))

(* The frame of a call at its entry, and after a return: a return drops    *)
(* every local.                                                            *)
Entered(file_id, decoded, detections) ==
    [pc |-> "call", file_id |-> file_id, decoded |-> decoded,
     detections |-> detections, source |-> None,
     aligned_face_inputs |-> <<>>, face_results |-> <<>>, consumed |-> 0,
     absolute_detection |-> None, alignment |-> None, aligned |-> None,
     returned |-> None]

Returned(frame, result) ==
    [frame EXCEPT !.pc = "returned", !.source = None,
                  !.aligned_face_inputs = <<>>, !.face_results = <<>>,
                  !.absolute_detection = None, !.alignment = None,
                  !.aligned = None, !.returned = Some(result)]

Init ==
    /\ \E file_id \in FileIds, decoded \in DecodedImages, n \in 0..MaxDetections :
          \E detections \in [1..n -> DetectionPool] :
              run = Entered(file_id, decoded, detections)
    /\ first_call = None
    /\ IdleDirection
    /\ IdleBlur
    /\ est = [pc |-> "idle"]

(* let source = rgb_image_from_decoded(decoded)?; and the two              *)
(* Vec::with_capacity                                                      *)
Begin ==
    /\ run.pc = "call"
    /\ \E built \in {rgb_image_from_decoded(run.decoded)} :
          run' = IF built.ok
                 THEN [run EXCEPT !.pc = "for", !.source = Some(built.value),
                                  !.aligned_face_inputs = <<>>,
                                  !.face_results = <<>>]
                 ELSE Returned(run, built)
    /\ UNCHANGED first_call

(* The for loop takes the next detection; to_absolute_detection;           *)
(* let alignment = estimate_similarity_transform(...)?;  The library's     *)
(* decomposition is of the matrix a of the estimate.                       *)
Estimate ==
    /\ run.pc = "for"
    /\ run.consumed < Len(run.detections)
    /\ \E absolute_detection \in
             {to_absolute_detection(run.detections[run.consumed + 1],
                                    run.decoded.dimensions.width,
                                    run.decoded.dimensions.height)} :
       \E c \in {covariance(absolute_detection.keypoints)} :
       \E svd \in SvdOracle(c.a) :
       \E alignment \in {estimate_from_covariance(c, svd)} :
          run' = IF alignment.ok
                 THEN [run EXCEPT !.pc = "warp", !.consumed = @ + 1,
                                  !.absolute_detection = Some(absolute_detection),
                                  !.alignment = Some(alignment.value)]
                 ELSE Returned([run EXCEPT !.consumed = @ + 1], alignment)
    /\ UNCHANGED first_call

(* Mutant of Warp: a face that cannot be warped is skipped.                *)
WarpOrSkip ==
    /\ run.pc = "warp"
    /\ \E aligned \in {Warped(run.source.value, run.alignment.value.affine_matrix)} :
          run' = IF aligned.ok
                 THEN [run EXCEPT !.pc = "push", !.aligned = Some(aligned.value)]
                 ELSE [run EXCEPT !.pc = "for", !.absolute_detection = None,
                                  !.alignment = None]
    /\ UNCHANGED first_call

(* let aligned = warp_face_image(&source, &alignment.affine_matrix)?;      *)
Warp ==
    /\ run.pc = "warp"
    /\ \E aligned \in {Warped(run.source.value, run.alignment.value.affine_matrix)} :
          run' = IF aligned.ok
                 THEN [run EXCEPT !.pc = "push", !.aligned = Some(aligned.value)]
                 ELSE Returned(run, aligned)
    /\ UNCHANGED first_call

(* Mutant of Push: the face id is made from the box of the first           *)
(* detection of the list.                                                  *)
PushWithFirstBox ==
    /\ run.pc = "push"
    /\ \E detection \in {run.detections[run.consumed]} :
          run' = [run EXCEPT
                    !.pc = "for",
                    !.aligned_face_inputs = Append(@, Normalized(run.aligned.value)),
                    !.face_results =
                        Append(@, [detection |-> detection,
                                   blur_value |->
                                       Blur(run.aligned.value,
                                            face_direction(run.absolute_detection.value)),
                                   alignment |-> run.alignment.value,
                                   embedding |-> <<>>,
                                   face_id |-> to_face_id(run.file_id,
                                                          run.detections[1].box_xyxy)]),
                    !.absolute_detection = None, !.alignment = None,
                    !.aligned = None]
    /\ UNCHANGED first_call

(* From `let normalized` to the end of the loop body.                      *)
Push ==
    /\ run.pc = "push"
    /\ \E detection \in {run.detections[run.consumed]} :
          run' = [run EXCEPT
                    !.pc = "for",
                    !.aligned_face_inputs = Append(@, Normalized(run.aligned.value)),
                    !.face_results =
                        Append(@, [detection |-> detection,
                                   blur_value |->
                                       Blur(run.aligned.value,
                                            face_direction(run.absolute_detection.value)),
                                   alignment |-> run.alignment.value,
                                   embedding |-> <<>>,
                                   face_id |-> to_face_id(run.file_id,
                                                          detection.box_xyxy)]),
                    !.absolute_detection = None, !.alignment = None,
                    !.aligned = None]
    /\ UNCHANGED first_call

(* Ok((aligned_face_inputs, face_results)) after the loop.                 *)
Return ==
    /\ run.pc = "for"
    /\ run.consumed = Len(run.detections)
    /\ run' = Returned(run, Ok(<<run.aligned_face_inputs, run.face_results>>))
    /\ UNCHANGED first_call

(* The caller, after a first call that returned Ok, keeps the tensor and   *)
(* the result at index i and calls again with the same file id and photo   *)
(* and the single detection i of the list.                                 *)
CallAgain ==
    /\ run.pc = "returned"
    /\ run.returned.value.ok
    /\ ~first_call.some
    /\ \E i \in 1..Len(run.detections) :
          /\ first_call' = Some([detections |-> run.detections,
                                 index |-> i,
                                 aligned_face_input |-> run.returned.value.value[1][i],
                                 face_result |-> run.returned.value.value[2][i]])
          /\ run' = Entered(run.file_id, run.decoded, <<run.detections[i]>>)

Next ==
    \/ Begin /\ UNCHANGED <<dirVars, blurVars, estVars>>
    \/ Estimate /\ UNCHANGED <<dirVars, blurVars, estVars>>
    \/ Warp /\ UNCHANGED <<dirVars, blurVars, estVars>>
    \/ Push /\ UNCHANGED <<dirVars, blurVars, estVars>>
    \/ Return /\ UNCHANGED <<dirVars, blurVars, estVars>>
    \/ CallAgain /\ UNCHANGED <<dirVars, blurVars, estVars>>

Spec == Init /\ [][Next]_vars

---------------------------------------------------------------------------
(* Claims about run_face_alignment (Spec)                                  *)

HasReturned == run.pc = "returned"

Result == run.returned.value

(* The buffer holds a pixel for every position of the stated dimensions.   *)
ValidBuffer ==
    Len(run.decoded.rgb) >= run.decoded.dimensions.width * run.decoded.dimensions.height * 3

(* What one detection of the photo comes to, for every answer the          *)
(* decomposition can give: the error of the estimate, the error of the     *)
(* warp, or Ok with the alignment.                                         *)
OutcomesOf(detection) ==
    LET keypoints == PoolAbsolute(detection).keypoints
    IN  { LET alignment == estimate_similarity_transform(keypoints, svd)
              aligned == Warped(PhotoImage, alignment.value.affine_matrix)
          IN  IF ~alignment.ok THEN alignment
              ELSE IF ~aligned.ok THEN aligned
              ELSE alignment :
          svd \in SvdOracle(covariance(keypoints).a) }

PoolOutcomes == { [detection |-> p, outcomes |-> OutcomesOf(p)] : p \in DetectionPool }

Outcomes(detection) ==
    (CHOOSE entry \in PoolOutcomes : entry.detection = detection).outcomes

Succeeds(detection) == \A outcome \in Outcomes(detection) : outcome.ok

Fails(detection) == \A outcome \in Outcomes(detection) : ~outcome.ok

(* C1: an Ok return for n detections holds n tensors of 37632 entries and  *)
(* n FaceResults, and tensor i and FaceResult i are those of detection i:  *)
(* the detection unchanged, an empty embedding, the face id of the file    *)
(* id and box i, an alignment estimated from detection i, and the tensor   *)
(* of the face warped by that alignment.                                   *)
C1_OkHoldsOnePerDetection ==
    (HasReturned /\ Result.ok) =>
        LET tensors == Result.value[1]
            results == Result.value[2]
            n == Len(run.detections)
        IN  /\ Len(tensors) = n
            /\ Len(results) = n
            /\ \A i \in 1..n :
                  /\ DOMAIN tensors[i] = 1..37632
                  /\ results[i].detection = run.detections[i]
                  /\ results[i].embedding = <<>>
                  /\ results[i].face_id =
                         to_face_id(run.file_id, run.detections[i].box_xyxy)
                  /\ Ok(results[i].alignment) \in Outcomes(run.detections[i])
                  /\ tensors[i] =
                         Normalized(Warped(PhotoImage,
                                           results[i].alignment.affine_matrix).value)

(* An Ok return for two different detections, with two different tensors   *)
(* and two different face ids.                                             *)
C1_Witness ==
    /\ HasReturned
    /\ Result.ok
    /\ Len(run.detections) = 2
    /\ run.detections[1] # run.detections[2]
    /\ Len(Result.value[1]) = 2
    /\ Result.value[1][1] # Result.value[1][2]
    /\ Result.value[2][1].face_id # Result.value[2][2].face_id

(* C2: with a valid buffer, a return is Ok only when every detection was   *)
(* taken and succeeds; otherwise the detection taken last is the first one *)
(* that fails, the return is that detection's Postprocess error and holds  *)
(* nothing else, and no later detection was taken.                         *)
C2_FirstFailureAborts ==
    (HasReturned /\ ValidBuffer) =>
        LET n == Len(run.detections)
            k == run.consumed
        IN  IF Result.ok
            THEN /\ k = n
                 /\ \A i \in 1..n : Succeeds(run.detections[i])
            ELSE /\ k \in 1..n
                 /\ Fails(run.detections[k])
                 /\ \A i \in 1..(k - 1) : Succeeds(run.detections[i])
                 /\ Result \in Outcomes(run.detections[k])
                 /\ Result.error.kind = "Postprocess"
                 /\ DOMAIN Result = {"ok", "error"}
                 /\ run.aligned_face_inputs = <<>>
                 /\ run.face_results = <<>>

(* A list of three whose first detection succeeds and whose second fails   *)
(* in the warp, or a list of two of that kind: the return is the error of  *)
(* the warp and the detection after it was never taken.                    *)
C2_Witness ==
    /\ HasReturned
    /\ ValidBuffer
    /\ ~Result.ok
    /\ Len(run.detections) >= 2
    /\ run.consumed = 2
    /\ Succeeds(run.detections[1])
    /\ Result = Err("Postprocess", "invalid affine matrix projection")

(* C3: with a buffer shorter than width * height * 3 the call returns a    *)
(* Preprocess error and takes no detection, whatever the list.             *)
C3_ShortBufferIsPreprocess ==
    ~ValidBuffer =>
        /\ run.pc \in {"call", "returned"}
        /\ run.consumed = 0
        /\ HasReturned =>
              /\ ~Result.ok
              /\ Result.error.kind = "Preprocess"
              /\ DOMAIN Result = {"ok", "error"}

(* A buffer one byte short and a list whose first detection would fail     *)
(* with Postprocess: the return is the Preprocess error.                   *)
C3_Witness ==
    /\ HasReturned
    /\ Len(run.decoded.rgb) + 1 =
           run.decoded.dimensions.width * run.decoded.dimensions.height * 3
    /\ Len(run.detections) >= 1
    /\ Fails(run.detections[1])
    /\ Result = Err("Preprocess", "failed to build RGB source image")

(* C4: after an Ok return for a list, the call with detection i alone      *)
(* returns Ok with exactly the tensor and the FaceResult the first call    *)
(* returned at index i.                                                    *)
C4_IndependentOfTheOthers ==
    (HasReturned /\ first_call.some) =>
        /\ Result.ok
        /\ Result.value[1] = <<first_call.value.aligned_face_input>>
        /\ Result.value[2] = <<first_call.value.face_result>>

(* The first call held two different detections and the second call was    *)
(* made with the second of them.                                           *)
C4_Witness ==
    /\ HasReturned
    /\ first_call.some
    /\ Len(first_call.value.detections) = 2
    /\ first_call.value.detections[1] # first_call.value.detections[2]
    /\ first_call.value.index = 2
    /\ run.detections = <<first_call.value.detections[2]>>
    /\ Result.ok

(* All five landmarks are the same point.                                  *)
SamePoint(detection) == \A i \in 1..5 : detection.keypoints[i] = detection.keypoints[1]

(* C6: for five landmarks that are one point, whatever the decomposition   *)
(* answers, no singular value is above 1e-6, the rank is 0 and the         *)
(* estimate is the Postprocess error, although the source variance is one  *)
(* for which the scale would be 1.0; no alignment exists for such a        *)
(* detection, and a call whose list holds one never returns Ok.            *)
C6_SamePointFails ==
    /\ run.pc = "call" =>
          \A i \in 1..Len(run.detections) : SamePoint(run.detections[i]) =>
              LET keypoints == PoolAbsolute(run.detections[i]).keypoints
                  c == covariance(keypoints)
              IN  /\ LeEpsilon(c.src_var_sum)
                  /\ \A svd \in SvdOracle(c.a) :
                        /\ ~above_rank_threshold(svd.singular[1])
                        /\ ~above_rank_threshold(svd.singular[2])
                        /\ rank_of(svd.singular) = 0
                        /\ estimate_similarity_transform(keypoints, svd) =
                               Err("Postprocess",
                                   "failed to estimate similarity transform (rank=0)")
    /\ run.pc \in {"warp", "push"} => ~SamePoint(run.detections[run.consumed])
    /\ (HasReturned /\ \E i \in 1..Len(run.detections) : SamePoint(run.detections[i])) =>
          ~Result.ok
    /\ (HasReturned /\ ValidBuffer /\ run.consumed >= 1
          /\ SamePoint(run.detections[run.consumed])) =>
          Result = Err("Postprocess", "failed to estimate similarity transform (rank=0)")

(* A list whose first detection succeeds and whose second is one point:    *)
(* the return is the rank-0 error.                                         *)
C6_Witness ==
    /\ HasReturned
    /\ ValidBuffer
    /\ Len(run.detections) = 2
    /\ Succeeds(run.detections[1])
    /\ SamePoint(run.detections[2])
    /\ run.consumed = 2
    /\ Result = Err("Postprocess", "failed to estimate similarity transform (rank=0)")

---------------------------------------------------------------------------
(* Claims about estimate_similarity_transform (SpecEst)                    *)

(* d as the claim gives it: (1, 1), or (1, -1) when det(A) < 0.            *)
ClaimedD(m) ==
    IF determinant(m).n < 0 THEN <<FInt(1), FInt(-1)>> ELSE <<FInt(1), FInt(1)>>

RotationAssigned == est.pc \in {"r", "scale"} \/ (est.pc = "returned" /\ est.result.ok)

(* C5: with rank >= 2 the matrix R = U * diag(d) * V^T, d = (1, 1) or      *)
(* (1, -1) by the sign of det(A), has determinant +1; an R that differs    *)
(* from U * diag(d) * V^T occurs only with rank 1, and the d that enters   *)
(* the scale is the d of the sign of det(A) in either case.                *)
C5_ProperRotation ==
    RotationAssigned =>
        LET unflipped == MMul(MMul(est.u, Diag(ClaimedD(est.a))), est.v_t)
        IN  /\ est.rank >= 2 =>
                /\ est.r = unflipped
                /\ determinant(est.r) = FInt(1)
            /\ est.r # unflipped => est.rank = 1
            /\ est.d = ClaimedD(est.a)
            /\ (est.pc \in {"scale", "returned"} /\ ~LeEpsilon(est.src_var_sum)) =>
                  FMul(est.scale, est.src_var_sum) =
                      FAdd(FMul(est.singular[1], ClaimedD(est.a)[1]),
                           FMul(est.singular[2], ClaimedD(est.a)[2]))

(* A mirrored face: det(A) < 0, the library answered with det(U) = -1 and  *)
(* det(V) = +1, and R is a rotation.                                       *)
C5_Witness ==
    /\ est.pc = "r"
    /\ est.rank = 2
    /\ determinant(est.a).n < 0
    /\ determinant(est.u) = FInt(-1)
    /\ determinant(est.v_t) = FInt(1)
    /\ est.singular[1] # est.singular[2]
    /\ determinant(est.r) = FInt(1)

---------------------------------------------------------------------------
(* Claims about face_direction (SpecDirection)                             *)

Classified == dir_result \in FaceDirection

(* The decision as the specification words it, with strict margins.        *)
EyesAboveNoseBy(det) ==
    FSub(PY(nose(det)), FMax(PY(left_eye(det)), PY(right_eye(det))))
MouthBelowNoseBy(det) ==
    FSub(FMin(PY(left_mouth(det)), PY(right_mouth(det))), PY(nose(det)))

UprightStrict(det) ==
    /\ FLt(eye_distance_y(det), FMul(FInt(2), EyesAboveNoseBy(det)))
    /\ FLt(mouth_distance_y(det), FMul(FInt(2), MouthBelowNoseBy(det)))

UprightAtLeast(det) ==
    /\ FLe(eye_distance_y(det), FMul(FInt(2), EyesAboveNoseBy(det)))
    /\ FLe(mouth_distance_y(det), FMul(FInt(2), MouthBelowNoseBy(det)))

NoseOutLeft(det) ==
    \A i \in {1, 2, 4, 5} : FLt(PX(nose(det)), PX(det.keypoints[i]))
NoseOutRight(det) ==
    \A i \in {1, 2, 4, 5} : FLt(PX(det.keypoints[i]), PX(nose(det)))
NoseNear(det, eye) ==
    FLt(FMul(FInt(5), FAbs(FSub(PX(nose(det)), PX(det.keypoints[eye])))),
        eye_distance_x(det))

DecisionWith(det, upright) ==
    IF NoseOutLeft(det) \/ (upright /\ NoseNear(det, 1)) THEN "Left"
    ELSE IF NoseOutRight(det) \/ (upright /\ NoseNear(det, 2)) THEN "Right"
    ELSE "Straight"

(* Landmarks mirrored about the nose's x-coordinate.                       *)
Mirrored(det) ==
    /\ FAdd(PX(left_eye(det)), PX(right_eye(det))) = FMul(FInt(2), PX(nose(det)))
    /\ FAdd(PX(left_mouth(det)), PX(right_mouth(det))) = FMul(FInt(2), PX(nose(det)))
    /\ PY(left_eye(det)) = PY(right_eye(det))
    /\ PY(left_mouth(det)) = PY(right_mouth(det))

(* C7 as stated: the precedence Left, Right, Straight with upright meaning *)
(* margins of AT LEAST half the eye span and half the mouth span.          *)
C7_DirectionWithAtLeastMargins ==
    Classified =>
        dir_result = DecisionWith(dir_detection, UprightAtLeast(dir_detection))

(* C7 amended: face_direction returns Left if nose-out-left or (upright    *)
(* and nose-near-left-eye), otherwise Right if nose-out-right or (upright  *)
(* and nose-near-right-eye), otherwise Straight, where upright means that  *)
(* both margins are STRICTLY MORE than half the span; a nose left of both  *)
(* x-ranges always gives Left, and upright mirrored landmarks give         *)
(* Straight.                                                               *)
C7_DirectionWithStrictMargins ==
    Classified =>
        /\ dir_result = DecisionWith(dir_detection, UprightStrict(dir_detection))
        /\ NoseOutLeft(dir_detection) => dir_result = "Left"
        /\ (Mirrored(dir_detection) /\ UprightStrict(dir_detection))
              => dir_result = "Straight"

(* A face whose eyes are above the nose by exactly half the eye span, with *)
(* the nose next to the left eye and not sticking out: not upright for the *)
(* code, so not Left.                                                      *)
C7_Witness ==
    /\ Classified
    /\ FMul(FInt(2), EyesAboveNoseBy(dir_detection)) = eye_distance_y(dir_detection)
    /\ FLt(mouth_distance_y(dir_detection), FMul(FInt(2), MouthBelowNoseBy(dir_detection)))
    /\ NoseNear(dir_detection, 1)
    /\ ~NoseOutLeft(dir_detection)
    /\ dir_result = "Straight"

(* C10: the nose is never close to both eyes at once.                      *)
C10_NeverCloseToBothEyes ==
    Classified =>
        ~(nose_close_to_left_eye(dir_detection)
            /\ nose_close_to_right_eye(dir_detection))

(* An upright face with the nose one pixel off the right eye, classified   *)
(* Right by closeness alone.                                               *)
C10_Witness ==
    /\ Classified
    /\ face_is_upright(dir_detection)
    /\ nose_close_to_right_eye(dir_detection)
    /\ PX(nose(dir_detection)) # PX(right_eye(dir_detection))
    /\ ~nose_sticking_out_right(dir_detection)
    /\ dir_result = "Right"

---------------------------------------------------------------------------
(* Claims about compute_blur_value (SpecBlur)                              *)

IsFlat(image) == \A k \in DOMAIN image.data : image.data[k] = image.data[0]

(* C8: for a face of one colour, in each direction, every entry of the     *)
(* Laplacian response map is 0 and the blur value is exactly 0.            *)
C8_FlatFaceHasZeroBlur ==
    (blur_pc \in {"laplacian", "done"} /\ IsFlat(face_image)) =>
        /\ laplacian.rows = FACE_SIZE
        /\ laplacian.cols = FACE_SIZE - REMOVE_SIDE_COLUMNS
        /\ DOMAIN laplacian.data = 0..(laplacian.rows * laplacian.cols - 1)
        /\ \A k \in DOMAIN laplacian.data : laplacian.data[k] = 0
        /\ blur_pc = "done" => blur_returned = FInt(0)

C8_Witness ==
    /\ blur_pc = "done"
    /\ face_image.data[0] = <<200, 100, 50>>
    /\ IsFlat(face_image)
    /\ direction = "Left"
    /\ gray.data[0] = 124
    /\ blur_returned = FInt(0)

(* refl(-1, n) = 1, refl(n, n) = n - 2, refl(k, n) = k otherwise.          *)
Refl(k, n) == IF k = -1 THEN 1 ELSE IF k = n THEN n - 2 ELSE k

ClaimedStart(dir) ==
    IF dir = "Straight" THEN REMOVE_SIDE_COLUMNS \div 2
    ELSE IF dir = "Left" THEN REMOVE_SIDE_COLUMNS
    ELSE 0

(* C9: the padded buffer has (R + 2) x (W - C + 2) cells and cell (r, c)   *)
(* is image[refl(r - 1, R)][start + refl(c - 1, W - C)].                    *)
C9_PaddedIsSecondRingReflection ==
    blur_pc \in {"padded", "laplacian", "done"} =>
        LET R == gray.rows
            W == gray.cols
            kept == W - REMOVE_SIDE_COLUMNS
        IN  /\ padded.rows = R + 2
            /\ padded.cols = kept + 2
            /\ DOMAIN padded.data = 0..((R + 2) * (kept + 2) - 1)
            /\ \A r \in 0..(R + 1) : \A c \in 0..(kept + 1) :
                  padded.data[r * (kept + 2) + c] =
                      gray.data[Refl(r - 1, R) * W
                                  + ClaimedStart(direction) + Refl(c - 1, kept)]

(* A shaded face turned Left whose padded corner differs from the corner   *)
(* pixel of the crop and equals the pixel one step inside it.              *)
C9_Witness ==
    /\ blur_pc = "padded"
    /\ direction = "Left"
    /\ padded.data[0] # gray.data[REMOVE_SIDE_COLUMNS]
    /\ padded.data[0] = gray.data[gray.cols + REMOVE_SIDE_COLUMNS + 1]
    /\ padded.data[0] # padded.data[1]

=============================================================================
